---------------------------- MODULE Spec2Model ----------------------------
(***************************************************************************)
(* Model of the long-text review program: the text splitter                *)
(* (src/src/models/text_splitter.py), the concurrent chunk dispatch        *)
(* (src/src/core/reviewer.py, src/src/core/chunk_processor.py), the        *)
(* consistency checker (src/src/core/consistency_checker.py) and the       *)
(* aggregation of the outcomes into a ReviewResult and its report.         *)
(*                                                                         *)
(* SpecSplit runs split_text alone, Spec a whole review_text run followed  *)
(* by to_dict calls, SpecChecker the checks of the consistency checker     *)
(* called one by one.                                                      *)
(*                                                                         *)
(* Texts are sequences of one-character strings.  Offsets are Python       *)
(* offsets (0-based, end-exclusive); PyIdx, Slice and RFind reproduce      *)
(* Python's treatment of negative and out-of-range indices.                *)
(***************************************************************************)
EXTENDS Integers, Sequences, FiniteSets, TLC

VARIABLES
    text,            \* the input text of split_text / review_text
    strategy,        \* TextSplitter.strategy
    max_chunk_size,  \* TextSplitter.max_chunk_size
    chunk_overlap,   \* TextSplitter.chunk_overlap
    chapter_patterns,\* TextSplitter.chapter_patterns (list of patterns)
    pc,              \* position of the control flow
    split,           \* outcome of split_text: [st, chunks]
    max_workers,     \* review.parallel.max_workers
    enable_parallel, \* review.parallel.enable_parallel
    enable_consistency_check, \* argument of review_text
    client,          \* "async": chat is a coroutine; "sync": the shipped MaaSClient
    task,            \* per chunk: [st, reply, result] of its process_chunk call
    sem,             \* value of the asyncio.Semaphore
    done_order,      \* chunk positions in the order their gateway calls finished
    chunk_results,   \* the list _process_chunks_parallel builds
    result,          \* the ReviewResult
    raised,          \* the exception review_text caught or let through, "none" if none
    enable_check,    \* ConsistencyChecker.enable_check
    check_types,     \* ConsistencyChecker.check_types
    cons_calls,      \* gateway calls of the consistency checker, in the order issued
    cancel,          \* external cancellation: "none", "review" or "task"
    now,             \* the clock datetime.now() reads, counted from the result's start_time
    report,          \* the dict the last to_dict call returned (<<>> before the first)
    checker          \* a ConsistencyChecker whose checks are called one by one:
                     \* [pc, chunks, results, report, merged]

cfgVars == <<text, strategy, max_chunk_size, chunk_overlap, chapter_patterns,
             max_workers, enable_parallel, enable_consistency_check, client,
             enable_check, check_types>>
dispatchVars == <<task, sem, done_order, chunk_results>>
consVars == <<cons_calls, cancel>>
reportVars == <<now, report>>

-----------------------------------------------------------------------------
(* Bounds of the model *)

MaxLen == 4        \* longest input text
MaxSize == 3       \* largest max_chunk_size
MaxWorkers == 3    \* largest max_workers
MaxClock == 2      \* latest clock reading after the result was created
MaxCheckedChunks == 2  \* longest chunk list given to the checks called one by one

DefaultMaxWorkers == 4   \* parallel_config.get('max_workers', 4)

-----------------------------------------------------------------------------
(* Characters.  One sentence terminator stands for the six the code lists  *)
(* (they are treated alike: the code takes the max of their rfind).        *)

Terminators == {"."}
Whitespace == {" ", "\n"}
Alphabet == {"a", ".", " ", "\n", "#"}

NoneValue == <<"None">>     \* Python's None for an optional label

SetMax(S) == CHOOSE x \in S : \A y \in S : y <= x
SetMin(S) == CHOOSE x \in S : \A y \in S : x <= y

RECURSIVE TextsOfLen(_)
TextsOfLen(n) ==
    IF n = 0 THEN {<<>>}
    ELSE {Append(t, c) : t \in TextsOfLen(n - 1), c \in Alphabet}

Texts == UNION {TextsOfLen(n) : n \in 0..MaxLen}

-----------------------------------------------------------------------------
(* Python string primitives *)

\* index normalisation of s[i:j] and s.rfind(c, i, j) for a string of length n
PyIdx(i, n) ==
    IF i < 0 THEN (IF i + n < 0 THEN 0 ELSE i + n)
    ELSE (IF i > n THEN n ELSE i)

\* s[i:j]
Slice(s, i, j) ==
    LET a == PyIdx(i, Len(s))
        b == PyIdx(j, Len(s))
    IN  IF a >= b THEN <<>> ELSE SubSeq(s, a + 1, b)

\* s[i:]
SliceFrom(s, i) == Slice(s, i, Len(s))

\* s.rfind(sub, i, j): highest offset p with s[p:p+len(sub)] = sub inside [i, j), else -1
RFind(s, sub, i, j) ==
    LET a == PyIdx(i, Len(s))
        b == PyIdx(j, Len(s))
        cands == {p \in a..(b - Len(sub)) : SubSeq(s, p + 1, p + Len(sub)) = sub}
    IN  IF cands = {} THEN -1 ELSE SetMax(cands)

\* s.strip()
RECURSIVE LStrip(_)
LStrip(s) == IF s # <<>> /\ Head(s) \in Whitespace THEN LStrip(Tail(s)) ELSE s

RECURSIVE RStrip(_)
RStrip(s) ==
    IF s # <<>> /\ s[Len(s)] \in Whitespace THEN RStrip(SubSeq(s, 1, Len(s) - 1)) ELSE s

Strip(s) == RStrip(LStrip(s))

\* TextChunk(content, chunk_id, chapter, start_pos, end_pos); start_pos and
\* end_pos default to 0, chapter to None
TextChunk(content, chunk_id, chapter, start_pos, end_pos) ==
    [content |-> content, chunk_id |-> chunk_id, chapter |-> chapter,
     start_pos |-> start_pos, end_pos |-> end_pos]

-----------------------------------------------------------------------------
(* _split_by_fixed_size *)

\* iterations a terminating window loop can take: the loop state is the start
\* offset alone, it stays within -chunk_overlap .. Len(t)-1, and a repeated
\* start offset repeats forever
LoopFuel(t) == Len(t) + chunk_overlap + 1

\* the end of the window that starts at `start`, after the boundary snap
FixedWindowEnd(t, start) ==
    LET end == start + max_chunk_size
    IN  IF end < Len(t)
        THEN LET sentence_end == SetMax({RFind(t, <<c>>, start, end) : c \in Terminators})
                 space_pos == RFind(t, <<" ">>, start, end)
             IN  IF sentence_end > start THEN sentence_end + 1
                 ELSE IF space_pos > start THEN space_pos
                 ELSE end
        ELSE end

\* start of the next window
FixedNextStart(t, end) == IF end < Len(t) THEN end - chunk_overlap ELSE end

RECURSIVE FixedLoop(_, _, _, _, _)
FixedLoop(t, start, chunk_id, chunks, fuel) ==
    IF ~(start < Len(t)) THEN [st |-> "returned", chunks |-> chunks]
    ELSE IF fuel = 0 THEN [st |-> "diverged", chunks |-> chunks]
    ELSE LET end == FixedWindowEnd(t, start)
             chunk == TextChunk(Slice(t, start, end), chunk_id, NoneValue, start, end)
         IN  FixedLoop(t, FixedNextStart(t, end), chunk_id + 1,
                       Append(chunks, chunk), fuel - 1)

SplitByFixedSize(t) == FixedLoop(t, 0, 0, <<>>, LoopFuel(t))

-----------------------------------------------------------------------------
(* _find_split_position and _split_large_content *)

\* faulty variant: the searches run to the end of the text, not of the window
FindSplitPositionPastWindow(t, start, end) ==
    LET sentence == {RFind(t, <<c>>, start, Len(t)) + 1 :
                        c \in {d \in Terminators : RFind(t, <<d>>, start, Len(t)) > start}}
        para_pos == RFind(t, <<"\n", "\n">>, start, Len(t))
        para == IF para_pos > start THEN {para_pos + 2} ELSE {}
        space_pos == RFind(t, <<" ">>, start, Len(t))
        space == IF space_pos > start THEN {space_pos + 1} ELSE {}
        candidates == sentence \cup para \cup space
    IN  IF candidates # {} THEN SetMax(candidates) ELSE end

FindSplitPosition(t, start, end) ==
    LET sentence == {RFind(t, <<c>>, start, end) + 1 :
                        c \in {d \in Terminators : RFind(t, <<d>>, start, end) > start}}
        para_pos == RFind(t, <<"\n", "\n">>, start, end)
        para == IF para_pos > start THEN {para_pos + 2} ELSE {}
        space_pos == RFind(t, <<" ">>, start, end)
        space == IF space_pos > start THEN {space_pos + 1} ELSE {}
        candidates == sentence \cup para \cup space
    IN  IF candidates # {} THEN SetMax(candidates) ELSE end

\* the end of the window of _split_large_content that starts at `start`
LargeWindowEnd(content, start) ==
    LET end == start + max_chunk_size
    IN  IF end < Len(content)
        THEN LET split_pos == FindSplitPosition(content, start, end)
             IN  IF split_pos > start THEN split_pos ELSE end
        ELSE end

LargeNextStart(content, end) == IF end < Len(content) THEN end - chunk_overlap ELSE end

RECURSIVE LargeLoop(_, _, _, _, _, _)
LargeLoop(content, chapter, start, sub_chunk_id, chunks, fuel) ==
    IF ~(start < Len(content)) THEN [st |-> "returned", chunks |-> chunks]
    ELSE IF fuel = 0 THEN [st |-> "diverged", chunks |-> chunks]
    ELSE LET end == LargeWindowEnd(content, start)
             chunk == TextChunk(Slice(content, start, end), sub_chunk_id, chapter,
                                start, end)
         IN  LargeLoop(content, chapter, LargeNextStart(content, end),
                       sub_chunk_id + 1, Append(chunks, chunk), fuel - 1)

SplitLargeContent(content, chapter) ==
    LargeLoop(content, chapter, 0, 0, <<>>, LoopFuel(content))

-----------------------------------------------------------------------------
(* _split_by_chapter.  A boundary pattern is a literal character sequence; *)
(* finditer yields its non-overlapping matches from left to right.         *)

RECURSIVE FindIter(_, _, _)
FindIter(pattern, t, from) ==
    LET starts == {p \in from..(Len(t) - Len(pattern)) :
                      SubSeq(t, p + 1, p + Len(pattern)) = pattern}
    IN  IF starts = {} THEN <<>>
        ELSE LET p == SetMin(starts)
             IN  <<[start |-> p, end |-> p + Len(pattern), title |-> pattern]>>
                 \o FindIter(pattern, t, p + Len(pattern))

RECURSIVE AllMatches(_, _)
AllMatches(patterns, t) ==
    IF patterns = <<>> THEN <<>>
    ELSE FindIter(Head(patterns), t, 0) \o AllMatches(Tail(patterns), t)

\* list.sort(key=lambda x: x[0]): stable, by start offset only
RECURSIVE SortByStart(_)
SortByStart(ms) ==
    IF ms = <<>> THEN <<>>
    ELSE LET lo == SetMin({ms[k].start : k \in 1..Len(ms)})
             k0 == SetMin({k \in 1..Len(ms) : ms[k].start = lo})
         IN  <<ms[k0]>> \o SortByStart(SubSeq(ms, 1, k0 - 1) \o SubSeq(ms, k0 + 1, Len(ms)))

ChapterMatches(t) == SortByStart(AllMatches(chapter_patterns, t))

\* the content of the i-th chapter (i is 0-based, as in the code)
ChapterContent(t, ms, i) ==
    IF i < Len(ms) - 1 THEN Slice(t, ms[i + 1].start, ms[i + 2].start)
    ELSE SliceFrom(t, ms[i + 1].start)

RECURSIVE ChapterLoop(_, _, _, _)
ChapterLoop(t, ms, i, chunks) ==
    IF i >= Len(ms) THEN [st |-> "returned", chunks |-> chunks]
    ELSE LET m == ms[i + 1]
             content == ChapterContent(t, ms, i)
         IN  IF Len(content) > max_chunk_size
             THEN LET sub == SplitLargeContent(content, m.title)
                  IN  IF sub.st = "diverged"
                      THEN [st |-> "diverged", chunks |-> chunks \o sub.chunks]
                      ELSE ChapterLoop(t, ms, i + 1, chunks \o sub.chunks)
             ELSE ChapterLoop(t, ms, i + 1,
                      Append(chunks, TextChunk(content, i, Strip(m.title), m.start,
                                               m.start + Len(content))))

\* faulty variant: no fallback to the fixed-size strategy when nothing matches
SplitByChapterNoFallback(t) == ChapterLoop(t, ChapterMatches(t), 0, <<>>)

SplitByChapter(t) ==
    LET ms == ChapterMatches(t)
    IN  IF ms = <<>> THEN SplitByFixedSize(t) ELSE ChapterLoop(t, ms, 0, <<>>)

-----------------------------------------------------------------------------
(* _split_by_paragraph *)

\* offset just past the match of \n\s*\n that begins at offset p, or -1: the
\* greedy \s* backtracks to the last newline of the whitespace run after p
ParaSepEnd(t, p) ==
    LET qs == {q \in (p + 1)..(Len(t) - 1) :
                  /\ t[q + 1] = "\n"
                  /\ \A r \in (p + 1)..(q - 1) : t[r + 1] \in Whitespace}
    IN  IF p < Len(t) /\ t[p + 1] = "\n" /\ qs # {} THEN SetMax(qs) + 1 ELSE -1

\* re.split(r'\n\s*\n', t[from:]): the pieces between the separators
RECURSIVE ReSplit(_, _)
ReSplit(t, from) ==
    LET ps == {p \in from..(Len(t) - 1) : ParaSepEnd(t, p) # -1}
    IN  IF ps = {} THEN <<SliceFrom(t, from)>>
        ELSE LET p == SetMin(ps)
             IN  <<Slice(t, from, p)>> \o ReSplit(t, ParaSepEnd(t, p))

RECURSIVE ParagraphLoop(_, _, _, _)
ParagraphLoop(paragraphs, current_chunk, chunk_id, chunks) ==
    IF paragraphs = <<>>
    THEN IF current_chunk # <<>>
         THEN Append(chunks, TextChunk(current_chunk, chunk_id, NoneValue, 0, 0))
         ELSE chunks
    ELSE LET para == Strip(Head(paragraphs))
             rest == Tail(paragraphs)
         IN  IF para = <<>> THEN ParagraphLoop(rest, current_chunk, chunk_id, chunks)
             ELSE IF Len(current_chunk) + Len(para) > max_chunk_size /\ current_chunk # <<>>
             THEN ParagraphLoop(rest, para, chunk_id + 1,
                      Append(chunks, TextChunk(current_chunk, chunk_id, NoneValue, 0, 0)))
             ELSE IF current_chunk # <<>>
             THEN ParagraphLoop(rest, current_chunk \o <<"\n", "\n">> \o para,
                                chunk_id, chunks)
             ELSE ParagraphLoop(rest, para, chunk_id, chunks)

SplitByParagraph(t) ==
    [st |-> "returned", chunks |-> ParagraphLoop(ReSplit(t, 0), <<>>, 0, <<>>)]

-----------------------------------------------------------------------------
(* _split_by_semantic *)

RECURSIVE SemanticLoop(_, _, _, _)
SemanticLoop(paragraphs, current_chunk, chunk_id, chunks) ==
    IF paragraphs = <<>>
    THEN [st |-> "returned",
          chunks |-> IF current_chunk # <<>>
                     THEN Append(chunks, TextChunk(current_chunk, chunk_id, NoneValue, 0, 0))
                     ELSE chunks]
    ELSE LET content == Head(paragraphs).content
             rest == Tail(paragraphs)
         IN  IF Len(current_chunk) + Len(content) <= max_chunk_size
             THEN SemanticLoop(rest,
                      IF current_chunk # <<>>
                      THEN current_chunk \o <<"\n", "\n">> \o content ELSE content,
                      chunk_id, chunks)
             ELSE LET flushed == IF current_chunk # <<>>
                                 THEN Append(chunks, TextChunk(current_chunk, chunk_id,
                                                               NoneValue, 0, 0))
                                 ELSE chunks
                      id1 == IF current_chunk # <<>> THEN chunk_id + 1 ELSE chunk_id
                  IN  IF Len(content) > max_chunk_size
                      THEN LET sub == SplitLargeContent(content, NoneValue)
                               all == flushed \o sub.chunks
                           IN  IF sub.st = "diverged"
                               THEN [st |-> "diverged", chunks |-> all]
                               ELSE SemanticLoop(rest, <<>>, all[Len(all)].chunk_id + 1, all)
                      ELSE SemanticLoop(rest, content, id1, flushed)

SplitBySemantic(t) == SemanticLoop(SplitByParagraph(t).chunks, <<>>, 0, <<>>)

-----------------------------------------------------------------------------
(* split_text *)

Strategies == {"chapter", "paragraph", "semantic", "fixed_size"}

SplitText(t) ==
    CASE strategy = "chapter"    -> SplitByChapter(t)
      [] strategy = "paragraph"  -> SplitByParagraph(t)
      [] strategy = "semantic"   -> SplitBySemantic(t)
      [] strategy = "fixed_size" -> SplitByFixedSize(t)
      [] OTHER                   -> [st |-> "raised", chunks |-> <<>>]

-----------------------------------------------------------------------------
(* ReviewResult and the per-chunk outcome *)

Max2(a, b) == IF a > b THEN a ELSE b

\* Scores and confidences are kept in tenths (confidence 0.5 is 5, score 100 is
\* 1000), so that weight * confidence stays an integer.

\* a ReviewIssue
ReviewIssue(chunk_id, review_point, severity, confidence) ==
    [chunk_id |-> chunk_id, review_point |-> review_point, severity |-> severity,
     confidence |-> confidence]

\* the ReviewIssue of a chunk finding (the replies name no review point)
Issue(chunk_id, severity, confidence) ==
    ReviewIssue(chunk_id, "unknown", severity, confidence)

\* an element of the chunk result list: a dict with the keys `keys`, or (exc) an
\* exception instance that gather(return_exceptions=True) put in its place
Outcome(keys, chunk_id, error, issues, overall_score) ==
    [exc |-> FALSE, keys |-> keys, chunk_id |-> chunk_id, error |-> error,
     issues |-> issues, overall_score |-> overall_score]

ExcObject(error) ==
    [exc |-> TRUE, keys |-> {}, chunk_id |-> -1, error |-> error,
     issues |-> <<>>, overall_score |-> 0]

NoOutcome == Outcome({}, -1, "pending", <<>>, 0)

\* end_time is None
NoneTime == -1

\* ReviewResult.__init__; summary is the empty sequence for the empty string,
\* else the one-element sequence of the numbers the summary text states;
\* consistency_results is a dict, None being the one without keys; times are
\* clock readings counted from start_time
NewResult ==
    [issues |-> <<>>, overall_score |-> 0, summary |-> <<>>,
     chunk_results |-> <<>>, consistency_results |-> [keys |-> {}],
     start_time |-> 0, end_time |-> NoneTime]

-----------------------------------------------------------------------------
(* Gateway replies to a chunk request *)

Reply(kind, issues, score) == [kind |-> kind, issues |-> issues, score |-> score]

\* the call raises (timeout, transport error, non-success status)
RaiseReply == Reply("raise", <<>>, 0)
\* reply text that is a JSON object with issues and overall_score
JsonClean == Reply("json", <<>>, 900)
JsonCritical == Reply("json", <<[severity |-> "critical", confidence |-> 10]>>, 400)
\* a reply text in which no score pattern matches
NoPhrase == -1
\* reply text that is not JSON: one line with a problem keyword, no score phrase;
\* for a text reply `score` is the number of the score phrase found, in tenths
TextOneIssue == Reply("text", <<[severity |-> "medium", confidence |-> 5]>>, NoPhrase)
\* reply text that is JSON but not an object
JsonNotObject == Reply("json_other", <<>>, 0)
\* a JSON object whose finding carries a confidence below 0
JsonNegativeConfidence ==
    Reply("json", <<[severity |-> "critical", confidence |-> -5]>>, 400)
\* a JSON object whose finding carries a severity outside the four names
JsonUnknownSeverity ==
    Reply("json", <<[severity |-> "blocker", confidence |-> 10]>>, 400)
\* no reply: the task was cancelled while its call was in flight
CancelReply == Reply("cancel", <<>>, 0)

Replies == {RaiseReply, JsonClean, JsonCritical, TextOneIssue, JsonNotObject,
            JsonNegativeConfidence, JsonUnknownSeverity}

\* score phrases a reply text may contain (numbers in tenths): none, in range, above 100
Phrases == {NoPhrase, 0, 620, 1000, 1500}

\* _extract_score_from_text, in tenths: the number of the first pattern that
\* matches, clamped to [0, 100]; 75 if none matches
ExtractScoreFromText(phrase) ==
    IF phrase = NoPhrase THEN 750
    ELSE IF phrase > 1000 THEN 1000
    ELSE IF phrase < 0 THEN 0
    ELSE phrase

-----------------------------------------------------------------------------
(* ChunkProcessor.process_chunk *)

FailureKeys == {"chunk_id", "error", "issues", "overall_score", "suggestions"}
InfoKeys == {"chunk_id", "chapter", "section", "content_length"}

\* the except branch of process_chunk
FailureOutcome(chunk, error) == Outcome(FailureKeys, chunk.chunk_id, error, <<>>, 0)

\* what the try block of process_chunk yields for a reply: a result dict, or
\* the exception that leaves it
TryProcess(chunk, reply, cl) ==
    IF reply.kind = "raise" THEN ExcObject("gateway")
    ELSE IF cl = "sync" THEN ExcObject("await")  \* await of the dict chat returned
    ELSE IF reply.kind = "json"
    THEN Outcome({"issues", "overall_score", "suggestions", "summary"} \cup InfoKeys,
                 chunk.chunk_id, "none", reply.issues, reply.score)
    ELSE IF reply.kind = "text"
    THEN Outcome({"raw_response", "issues", "overall_score", "suggestions", "summary"}
                     \cup InfoKeys,
                 chunk.chunk_id, "none", reply.issues, ExtractScoreFromText(reply.score))
    ELSE ExcObject("type")   \* result['chunk_id'] = ... on a list, str or number

ProcessChunk(chunk, reply, cl) ==
    LET r == TryProcess(chunk, reply, cl)
    IN  IF r.exc THEN FailureOutcome(chunk, r.error) ELSE r

\* the except branch of the sequential loop of _process_chunks_parallel
SeqFailureOutcome(chunk, error) ==
    Outcome({"chunk_id", "error", "issues"}, chunk.chunk_id, error, <<>>, 0)

-----------------------------------------------------------------------------
(* ReviewResult: collecting the issues, the summary, the score *)

\* _parse_chunk_issues
ParseChunkIssues(issues_data, chunk_id) ==
    [k \in 1..Len(issues_data) |->
        Issue(chunk_id, issues_data[k].severity, issues_data[k].confidence)]

RECURSIVE CollectIssues(_, _)
CollectIssues(results, k) ==
    IF k > Len(results) THEN <<>>
    ELSE (IF "issues" \in results[k].keys
          THEN ParseChunkIssues(results[k].issues, results[k].chunk_id)
          ELSE <<>>) \o CollectIssues(results, k + 1)

PenaltyWeight(severity) ==
    CASE severity = "critical" -> 20
      [] severity = "high"     -> 10
      [] severity = "medium"   -> 5
      [] severity = "low"      -> 1
      [] OTHER                 -> 1

RECURSIVE TotalPenalty(_)
TotalPenalty(issues) ==
    IF issues = <<>> THEN 0
    ELSE PenaltyWeight(Head(issues).severity) * Head(issues).confidence
         + TotalPenalty(Tail(issues))

\* calculate_overall_score, in tenths
CalculateOverallScore(issues) ==
    IF issues = <<>> THEN 100 * 10
    ELSE Max2(0, 100 * 10 - TotalPenalty(issues))

CountSeverity(issues, severity) ==
    Cardinality({k \in 1..Len(issues) : issues[k].severity = severity})

\* _generate_summary: the numbers the summary text states
GenerateSummary(r) ==
    [total |-> Len(r.issues),
     critical |-> CountSeverity(r.issues, "critical"),
     high |-> CountSeverity(r.issues, "high"),
     medium |-> CountSeverity(r.issues, "medium"),
     low |-> CountSeverity(r.issues, "low"),
     consistency_score |-> IF r.consistency_results.keys = {} THEN -1
                           ELSE r.consistency_results.consistency_score,
     overall_score |-> r.overall_score]

Severities == {"critical", "high", "medium", "low"}

\* get_issues_by_severity: an issue whose severity is none of the four keys is
\* put in no group
GetIssuesBySeverity(issues) ==
    [s \in Severities |-> SelectSeq(issues, LAMBDA i : i.severity = s)]

\* the dict to_dict returns for a result whose end_time it has just set
ToDictReport(r) ==
    [overall_score |-> r.overall_score,
     issues |-> r.issues,
     issues_by_severity |-> GetIssuesBySeverity(r.issues),
     total_issues |-> Len(r.issues),
     summary |-> r.summary,
     duration_seconds |-> r.end_time - r.start_time,
     start_time |-> r.start_time,
     end_time |-> r.end_time]

\* the synthetic finding of the except branch of review_text
SystemErrorIssue == ReviewIssue(-1, "system_error", "critical", 10)

-----------------------------------------------------------------------------
(* ConsistencyChecker *)

CheckTypes == {"terminology", "facts", "logic", "requirements"}
\* consistency_config.get('check_types', ['terminology', 'facts', 'logic'])
DefaultCheckTypes == {"terminology", "facts", "logic"}
\* the order in which check_consistency fills and walks its results dict
CheckOrder == <<"terminology", "facts", "logic", "requirements">>

\* an inconsistency or critical issue as a check reports it
Finding(type, severity, confidence) ==
    [type |-> type, severity |-> severity, confidence |-> confidence]

\* the dict one check returns
SubReport(inconsistencies, critical_issues, recommendations) ==
    [inconsistencies |-> inconsistencies, critical_issues |-> critical_issues,
     recommendations |-> recommendations]

\* a gateway reply to the fact-check request
ConsReply(kind, inconsistencies, critical_issues) ==
    [kind |-> kind, inconsistencies |-> inconsistencies,
     critical_issues |-> critical_issues]

\* the call raises
ConsRaise == ConsReply("raise", <<>>, <<>>)
\* a JSON object with one inconsistency and one critical issue
FactsFinding ==
    ConsReply("json", <<Finding("facts", "high", 10)>>,
              <<Finding("facts", "critical", 10)>>)

FactsReplies == {ConsRaise, FactsFinding}

\* the dict _check_facts_consistency returns: the lists of the reply, or empty
\* lists when the call raised (with the shipped client every await raises)
FactsReport(reply, cl) ==
    IF reply.kind = "raise" \/ cl = "sync" THEN SubReport(<<>>, <<>>, <<>>)
    ELSE SubReport(reply.inconsistencies, reply.critical_issues,
                   IF reply.inconsistencies # <<>> THEN <<"facts">> ELSE <<>>)

\* a gateway call the checker made, with the reply it got
ConsCall(check, reply) == [check |-> check, reply |-> reply]

\* the lists check_consistency and _calculate_consistency_score take from the
\* results of the configured check types
RECURSIVE MergeField(_, _, _, _)
MergeField(results, types, field, k) ==
    IF k > Len(CheckOrder) THEN <<>>
    ELSE (IF CheckOrder[k] \in DOMAIN results /\ CheckOrder[k] \in types
          THEN results[CheckOrder[k]][field] ELSE <<>>)
         \o MergeField(results, types, field, k + 1)

ConsistencyWeight(severity) ==
    CASE severity = "critical" -> 10
      [] severity = "high"     -> 5
      [] severity = "medium"   -> 2
      [] OTHER                 -> 1

RECURSIVE CriticalPenalty(_)
CriticalPenalty(issues) ==
    IF issues = <<>> THEN 0
    ELSE 15 * Head(issues).confidence + CriticalPenalty(Tail(issues))

RECURSIVE InconsistencyPenalty(_)
InconsistencyPenalty(issues) ==
    IF issues = <<>> THEN 0
    ELSE ConsistencyWeight(Head(issues).severity) * Head(issues).confidence
         + InconsistencyPenalty(Tail(issues))

\* _calculate_consistency_score, in tenths
CalculateConsistencyScore(results, types) ==
    Max2(0, 100 * 10
            - CriticalPenalty(MergeField(results, types, "critical_issues", 1))
            - InconsistencyPenalty(MergeField(results, types, "inconsistencies", 1)))

\* the dict check_consistency returns
ConsistencyResult(keys, score, inconsistencies, critical_issues, recommendations) ==
    [keys |-> keys, consistency_score |-> score, inconsistencies |-> inconsistencies,
     critical_issues |-> critical_issues, recommendations |-> recommendations]

\* check_consistency returns at once: the checker is disabled (or there are
\* fewer than two chunks)
SkippedConsistency ==
    ConsistencyResult({"consistency_score", "inconsistencies", "recommendations",
                       "critical_issues"},
                      100 * 10, <<>>, <<>>, <<>>)

\* a gateway reply to the requirement-conflict request
ConflictCritical == ConsReply("json", <<Finding("requirements", "critical", 10)>>, <<>>)
ConflictHigh == ConsReply("json", <<Finding("requirements", "high", 5)>>, <<>>)
RequirementsReplies == {ConsRaise, ConflictCritical, ConflictHigh}

\* _parse_consistency_issues
ParseConsistencyIssues(consistency_result) ==
    [k \in 1..Len(consistency_result.inconsistencies) |->
        ReviewIssue(-1, "consistency",
                    consistency_result.inconsistencies[k].severity,
                    consistency_result.inconsistencies[k].confidence)]

-----------------------------------------------------------------------------
(* ConsistencyChecker: term and requirement extraction, the terminology and *)
(* the requirement check.  Chunk contents are sequences of characters of    *)
(* four kinds; "xi", "tong", "bi", "xu" stand for the CJK characters of the *)
(* suffix of r'[CJK]{2,}<xi><tong>' (the domain-suffix pattern "...system") *)
(* and of the keyword of r'<bi><xu>.*?[<.>!?]' (the requirement pattern     *)
(* "must ..."), "." for the CJK full stop.                                  *)

UpperLetters == {"A", "I"}
LowerLetters == {"a", "i"}
Letters == UpperLetters \cup LowerLetters
CjkChars == {"xi", "tong", "bi", "xu"}

\* str.lower() of one character
LowerChar(c) ==
    CASE c = "A" -> "a"
      [] c = "I" -> "i"
      [] OTHER   -> c

\* _normalize_term: lower case, then every character that is neither a word
\* character nor a CJK character is removed
NormalizeTerm(term) ==
    SelectSeq([k \in 1..Len(term) |-> LowerChar(term[k])],
              LAMBDA c : c \in Letters \cup CjkChars)

\* offset just past the run of characters of `class` that starts at offset p
RECURSIVE RunEnd(_, _, _)
RunEnd(content, p, class) ==
    IF p < Len(content) /\ content[p + 1] \in class
    THEN RunEnd(content, p + 1, class) ELSE p

\* re.findall(r'[A-Za-z]{2,}[A-Za-z0-9]*|...', content[p:]): the runs of two or
\* more letters (the second alternative needs a parenthesis)
RECURSIVE TechTerms(_, _)
TechTerms(content, p) ==
    IF p >= Len(content) THEN {}
    ELSE IF content[p + 1] \in Letters
    THEN LET q == RunEnd(content, p, Letters)
         IN  (IF q - p >= 2 THEN {SubSeq(content, p + 1, q)} ELSE {})
                 \cup TechTerms(content, q)
    ELSE TechTerms(content, p + 1)

\* re.findall of the domain-suffix pattern on content[p:]: two or more CJK
\* characters followed by the suffix, the greedy run backtracking to the last
\* suffix it contains
RECURSIVE SuffixTerms(_, _)
SuffixTerms(content, p) ==
    IF p >= Len(content) THEN {}
    ELSE LET q == RunEnd(content, p, CjkChars)
             es == {e \in (p + 4)..q : content[e - 1] = "xi" /\ content[e] = "tong"}
         IN  IF es # {}
             THEN {SubSeq(content, p + 1, SetMax(es))} \cup SuffixTerms(content, SetMax(es))
             ELSE SuffixTerms(content, p + 1)

\* _extract_terms: the distinct matches longer than two characters
ExtractTerms(content) ==
    {t \in TechTerms(content, 0) \cup SuffixTerms(content, 0) : Len(t) > 2}

\* the surface forms of all chunks
AllTerms(contents) == UNION {ExtractTerms(contents[k]) : k \in 1..Len(contents)}

\* term_variations: the surface forms recorded under a normalized key
TermVariations(contents, key) == {t \in AllTerms(contents) : NormalizeTerm(t) = key}

\* the finding of one normalized key; max(unique_terms, key=len) takes one of
\* the longest forms (which one depends on the iteration order of a set)
TermFinding(key, variants, suggestion) ==
    [type |-> "terminology", severity |-> "medium", confidence |-> 8,
     key |-> key, variants |-> variants, suggestion |-> suggestion]

\* the normalized keys recorded with more than one surface form
VariantKeys(contents) ==
    {key \in {NormalizeTerm(t) : t \in AllTerms(contents)} :
        Cardinality(TermVariations(contents, key)) > 1}

LongestForms(contents, key) ==
    {v \in TermVariations(contents, key) :
        \A w \in TermVariations(contents, key) : Len(w) <= Len(v)}

TermFindings(contents) ==
    UNION {{TermFinding(key, TermVariations(contents, key), s) :
               s \in LongestForms(contents, key)} : key \in VariantKeys(contents)}

\* the finding lists _check_terminology_consistency can build: one finding per
\* key with more than one form, in the order the keys entered the dict (the
\* order of the terms of one chunk is that of a set)
TerminologyFindingLists(contents) ==
    LET keys == VariantKeys(contents)
    IN  {fs \in [1..Cardinality(keys) -> TermFindings(contents)] :
            {fs[k].key : k \in 1..Cardinality(keys)} = keys}

\* the dict _check_terminology_consistency returns
TerminologyReport(findings) ==
    SubReport(findings, <<>>, IF findings # <<>> THEN <<"terminology">> ELSE <<>>)

\* re.findall of the requirement pattern on content[p:]: from the keyword to
\* the nearest terminator after it
RECURSIVE ExtractRequirements(_, _)
ExtractRequirements(content, p) ==
    IF p + 2 > Len(content) THEN <<>>
    ELSE LET qs == {q \in (p + 3)..Len(content) : content[q] = "."}
         IN  IF content[p + 1] = "bi" /\ content[p + 2] = "xu" /\ qs # {}
             THEN <<SubSeq(content, p + 1, SetMin(qs))>>
                      \o ExtractRequirements(content, SetMin(qs))
             ELSE ExtractRequirements(content, p + 1)

\* requirement_list: the (chunk index, requirement) pairs of all chunks
RECURSIVE RequirementList(_, _)
RequirementList(contents, k) ==
    IF k > Len(contents) THEN <<>>
    ELSE LET reqs == ExtractRequirements(contents[k], 0)
         IN  [j \in 1..Len(reqs) |-> [chunk_id |-> k - 1, req |-> reqs[j]]]
             \o RequirementList(contents, k + 1)

\* the dict _check_requirements_consistency returns: the conflicts of the
\* reply, those of severity critical also as critical issues
RequirementsReport(requirement_list, reply, cl) ==
    LET conflicts == IF Len(requirement_list) > 1 /\ reply.kind = "json" /\ cl = "async"
                     THEN reply.inconsistencies ELSE <<>>
    IN  SubReport(conflicts,
                  SelectSeq(conflicts, LAMBDA inc : inc.severity = "critical"),
                  IF conflicts # <<>> THEN <<"requirements">> ELSE <<>>)

\* results[check_type] = report
PutResult(results, check_type, sub_report) ==
    [t \in DOMAIN results \cup {check_type} |->
        IF t = check_type THEN sub_report ELSE results[t]]

NoResults == [t \in {} |-> SubReport(<<>>, <<>>, <<>>)]

\* the dict check_consistency builds from the results of the checks
FullConsistencyResult(results, types) ==
    ConsistencyResult({"consistency_score", "inconsistencies", "critical_issues",
                       "recommendations", "detailed_results"},
                      CalculateConsistencyScore(results, types),
                      MergeField(results, types, "inconsistencies", 1),
                      MergeField(results, types, "critical_issues", 1),
                      MergeField(results, types, "recommendations", 1))

\* chunk contents given to the checks
AISystem == <<"A", "I", "xi", "tong">>
AiSpaceSystem == <<"A", "i", " ", "xi", "tong">>
TermContents ==
    { <<>>, AISystem, AiSpaceSystem,
      <<"A", "I", "A">>, <<"A", "i", "a">>,
      <<"a", "i", "a", " ", "A", "I", "A", "I">>,
      <<"xi", "tong", "xi", "tong">>,
      <<"bi", "xu", "A", "I", "A", ".">> }

ChunkContentLists == UNION {[1..n -> TermContents] : n \in 2..MaxCheckedChunks}

CheckerState(p, chunks, results, rep, merged) ==
    [pc |-> p, chunks |-> chunks, results |-> results, report |-> rep, merged |-> merged]

\* no checker is being called on its own
CheckerOff == CheckerState("off", <<>>, NoResults, <<>>, <<>>)

-----------------------------------------------------------------------------
(* Initial states *)

\* configured boundary patterns: none, one, or two that can match at one offset
PatternLists == {<<>>, <<(<<"#">>)>>, <<(<<"#">>), (<<"#", "a">>)>>}

NoSplit == [st |-> "none", chunks |-> <<>>]

\* state of a review run before review_text has split the text
ReviewIdle ==
    /\ pc = "start"
    /\ split = NoSplit
    /\ task = <<>>
    /\ sem = 0
    /\ done_order = <<>>
    /\ chunk_results = <<>>
    /\ result = NewResult
    /\ raised = "none"
    /\ cons_calls = <<>>
    /\ cancel = "none"
    /\ now = 0
    /\ report = <<>>

\* the checks of a ConsistencyChecker called one by one on a chunk list
InitChecker ==
    /\ text = <<>>
    /\ strategy = "fixed_size"
    /\ max_chunk_size = MaxSize
    /\ chunk_overlap = 0
    /\ chapter_patterns = <<>>
    /\ max_workers = DefaultMaxWorkers
    /\ enable_parallel = TRUE
    /\ enable_consistency_check = TRUE
    /\ enable_check = TRUE
    /\ check_types \in {DefaultCheckTypes, CheckTypes}
    /\ client \in {"async", "sync"}
    /\ ReviewIdle
    /\ \E chunks \in ChunkContentLists :
           checker = CheckerState("terminology", chunks, NoResults, <<>>, <<>>)

\* the splitter on its own: every text and configuration within the bounds,
\* with 0 <= chunk_overlap < max_chunk_size
InitSplit ==
    /\ text \in Texts
    /\ strategy \in Strategies \cup {"unknown"}
    /\ max_chunk_size \in 1..MaxSize
    /\ chunk_overlap \in 0..(max_chunk_size - 1)
    /\ chapter_patterns \in (IF strategy = "chapter" THEN PatternLists ELSE {<<>>})
    /\ max_workers = DefaultMaxWorkers
    /\ enable_parallel = TRUE
    /\ enable_consistency_check = FALSE
    /\ enable_check = TRUE
    /\ check_types = DefaultCheckTypes
    /\ client = "async"
    /\ ReviewIdle
    /\ checker = CheckerOff

SplitInput(t, s, m, o, ps) ==
    [text |-> t, strategy |-> s, max_chunk_size |-> m, chunk_overlap |-> o,
     chapter_patterns |-> ps]

\* a review run: the splitter's input, the enable_consistency_check argument
\* and the checker's configuration
ReviewInput(i, ecc, ec, types) ==
    [split_input |-> i, enable_consistency_check |-> ecc, enable_check |-> ec,
     check_types |-> types]

\* inputs of the review runs without consistency check: texts that split into
\* 0, 1, 2 and 3 chunks (one of them with a repeated chunk id), one the splitter
\* does not return for, and an unknown strategy
PlainInputs ==
    { SplitInput(<<>>, "fixed_size", 2, 0, <<>>),
      SplitInput(<<"a", "a">>, "fixed_size", 3, 1, <<>>),
      SplitInput(<<"a", "a", "a", "a">>, "fixed_size", 2, 0, <<>>),
      SplitInput(<<"a", "a", "a", "a">>, "fixed_size", 2, 1, <<>>),
      SplitInput(<<"#", "a", "a", "#">>, "chapter", 2, 0, <<(<<"#">>)>>),
      SplitInput(<<"a", "\n", "\n", "a">>, "paragraph", 1, 0, <<>>),
      SplitInput(<<"a", ".", "a", "a">>, "fixed_size", 3, 2, <<>>),
      SplitInput(<<"a", "a">>, "unknown", 2, 0, <<>>) }

\* inputs of the review runs that ask for the consistency check: one, two and
\* three chunks, the checker disabled, and several sets of check types
ConsistencyInputs ==
    { ReviewInput(SplitInput(<<"a", "a">>, "fixed_size", 3, 1, <<>>),
                  TRUE, TRUE, DefaultCheckTypes),
      ReviewInput(SplitInput(<<"a", "a", "a", "a">>, "fixed_size", 2, 0, <<>>),
                  TRUE, TRUE, DefaultCheckTypes),
      ReviewInput(SplitInput(<<"a", "a", "a", "a">>, "fixed_size", 2, 0, <<>>),
                  TRUE, FALSE, DefaultCheckTypes),
      ReviewInput(SplitInput(<<"a", "a", "a", "a">>, "fixed_size", 2, 1, <<>>),
                  TRUE, TRUE, DefaultCheckTypes),
      ReviewInput(SplitInput(<<"a", "a", "a", "a">>, "fixed_size", 2, 0, <<>>),
                  TRUE, TRUE, CheckTypes),
      ReviewInput(SplitInput(<<"a", "a", "a", "a">>, "fixed_size", 2, 0, <<>>),
                  TRUE, TRUE, {"terminology"}) }

ReviewInputs ==
    {ReviewInput(i, FALSE, TRUE, DefaultCheckTypes) : i \in PlainInputs}
        \cup ConsistencyInputs

Init ==
    /\ \E i \in ReviewInputs :
           /\ text = i.split_input.text
           /\ strategy = i.split_input.strategy
           /\ max_chunk_size = i.split_input.max_chunk_size
           /\ chunk_overlap = i.split_input.chunk_overlap
           /\ chapter_patterns = i.split_input.chapter_patterns
           /\ enable_consistency_check = i.enable_consistency_check
           /\ enable_check = i.enable_check
           /\ check_types = i.check_types
    /\ max_workers \in -1..MaxWorkers
    /\ enable_parallel \in BOOLEAN
    /\ client \in {"async", "sync"}
    /\ ReviewIdle
    /\ checker = CheckerOff

-----------------------------------------------------------------------------
(* review_text, step 1: split_text *)

vars == <<text, strategy, max_chunk_size, chunk_overlap, chapter_patterns, pc, split,
          max_workers, enable_parallel, enable_consistency_check, client,
          task, sem, done_order, chunk_results, result, raised,
          enable_check, check_types, cons_calls, cancel, now, report, checker>>

\* chunks = self.text_splitter.split_text(text)
DoSplit ==
    /\ pc = "start"
    /\ split' = SplitText(text)
    /\ pc' = "split"
    /\ UNCHANGED <<cfgVars, reportVars, checker, consVars, dispatchVars, result, raised>>

NextSplit == DoSplit

SpecSplit == InitSplit /\ [][NextSplit]_vars

-----------------------------------------------------------------------------
(* review_text, step 2: _process_chunks_parallel *)

Chunks == split.chunks

QueuedTask == [st |-> "queued", reply |-> RaiseReply, result |-> NoOutcome]

InFlight == Cardinality({k \in 1..Len(task) : task[k].st = "inflight"})

AllDone == \A k \in 1..Len(task) : task[k].st = "done"

\* the next chunk in chunk order whose request has not been issued
IsNextQueued(k) ==
    /\ k \in 1..Len(task)
    /\ task[k].st = "queued"
    /\ \A j \in 1..(k - 1) : task[j].st # "queued"

\* the blocking chat of the shipped client holds the event loop until it returns
LoopBlocked == client = "sync" /\ InFlight > 0

\* faulty variant: the except branch replaces the finding list
CaughtResultAlone(r, issues) == [r EXCEPT !.issues = <<SystemErrorIssue>>]

\* the except branch of review_text
CaughtResult(r, issues) == [r EXCEPT !.issues = Append(issues, SystemErrorIssue)]

\* split_text raised (unknown strategy): the except branch of review_text
SplitRaised ==
    /\ pc = "split"
    /\ split.st = "raised"
    /\ result' = CaughtResult(result, result.issues)
    /\ raised' = "ValueError"
    /\ pc' = "returned"
    /\ UNCHANGED <<cfgVars, reportVars, checker, consVars, split, dispatchVars>>

\* entry of _process_chunks_parallel: the parallel path creates the semaphore
\* and one task per chunk (asyncio.Semaphore raises ValueError for a negative
\* value); otherwise the sequential loop
BeginDispatch ==
    /\ pc = "split"
    /\ split.st = "returned"
    /\ IF enable_parallel /\ Len(Chunks) > 1
       THEN IF max_workers < 0
            THEN /\ result' = CaughtResult(result, result.issues)
                 /\ raised' = "ValueError"
                 /\ pc' = "returned"
                 /\ UNCHANGED <<task, sem>>
            ELSE /\ sem' = max_workers
                 /\ task' = [k \in 1..Len(Chunks) |-> QueuedTask]
                 /\ pc' = "parallel"
                 /\ UNCHANGED <<result, raised>>
       ELSE /\ task' = [k \in 1..Len(Chunks) |-> QueuedTask]
            /\ pc' = "sequential"
            /\ UNCHANGED <<sem, result, raised>>
    /\ UNCHANGED <<cfgVars, reportVars, checker, consVars, split, done_order, chunk_results>>

\* faulty variant: the request goes out without waiting for the semaphore
AcquireNoLimit(k) ==
    /\ pc = "parallel"
    /\ IsNextQueued(k)
    /\ ~LoopBlocked
    /\ sem' = sem - 1
    /\ task' = [task EXCEPT ![k].st = "inflight"]
    /\ UNCHANGED <<cfgVars, reportVars, checker, consVars, pc, split, done_order, chunk_results, result, raised>>

\* `async with semaphore` admits the task of chunk k (waiters are woken in FIFO
\* order, which is chunk order) and its gateway request goes out
Acquire(k) ==
    /\ pc = "parallel"
    /\ IsNextQueued(k)
    /\ sem > 0
    /\ ~LoopBlocked
    /\ sem' = sem - 1
    /\ task' = [task EXCEPT ![k].st = "inflight"]
    /\ UNCHANGED <<cfgVars, reportVars, checker, consVars, pc, split, done_order, chunk_results, result, raised>>

\* the gateway call of chunk k ends with reply r; process_chunk returns and the
\* semaphore is released
Complete(k, r) ==
    /\ pc = "parallel"
    /\ k \in 1..Len(task)
    /\ task[k].st = "inflight"
    /\ task' = [task EXCEPT ![k] = [st |-> "done", reply |-> r,
                                    result |-> ProcessChunk(Chunks[k], r, client)]]
    /\ sem' = sem + 1
    /\ done_order' = Append(done_order, k)
    /\ UNCHANGED <<cfgVars, reportVars, checker, consVars, pc, split, chunk_results, result, raised>>

\* faulty variant: the results in completion order
GatherInCompletionOrder(tasks, order) == [k \in 1..Len(tasks) |-> tasks[order[k]].result]

\* asyncio.gather(*tasks, return_exceptions=True): the results in task order
GatherResults(tasks, order) == [k \in 1..Len(tasks) |-> tasks[k].result]

\* faulty variant: gather returns as soon as one task has completed
GatherFirstCompleted ==
    /\ pc = "parallel"
    /\ \E k \in 1..Len(task) : task[k].st = "done"
    /\ chunk_results' = GatherResults(task, done_order)
    /\ pc' = "collect"
    /\ UNCHANGED <<cfgVars, reportVars, checker, consVars, split, task, sem, done_order, result, raised>>

Gather ==
    /\ pc = "parallel"
    /\ AllDone
    /\ chunk_results' = GatherResults(task, done_order)
    /\ pc' = "collect"
    /\ UNCHANGED <<cfgVars, reportVars, checker, consVars, split, task, sem, done_order, result, raised>>

\* the sequential loop awaits process_chunk of chunk k
SeqIssue(k) ==
    /\ pc = "sequential"
    /\ IsNextQueued(k)
    /\ InFlight = 0
    /\ task' = [task EXCEPT ![k].st = "inflight"]
    /\ UNCHANGED <<cfgVars, reportVars, checker, consVars, pc, split, sem, done_order, chunk_results, result, raised>>

\* the result of the sequential loop body: process_chunk's, or the record of
\* the loop's own except branch
SeqOutcome(chunk, reply, cl) ==
    LET r == ProcessChunk(chunk, reply, cl)
    IN  IF r.exc THEN SeqFailureOutcome(chunk, r.error) ELSE r

SeqComplete(k, r) ==
    /\ pc = "sequential"
    /\ k \in 1..Len(task)
    /\ task[k].st = "inflight"
    /\ LET out == SeqOutcome(Chunks[k], r, client)
       IN  /\ task' = [task EXCEPT ![k] = [st |-> "done", reply |-> r, result |-> out]]
           /\ chunk_results' = Append(chunk_results, out)
    /\ done_order' = Append(done_order, k)
    /\ UNCHANGED <<cfgVars, reportVars, checker, consVars, pc, split, sem, result, raised>>

\* return results
SeqReturn ==
    /\ pc = "sequential"
    /\ AllDone
    /\ pc' = "collect"
    /\ UNCHANGED <<cfgVars, reportVars, checker, consVars, split, dispatchVars, result, raised>>

-----------------------------------------------------------------------------
(* review_text, steps 3 to 6: collect the issues, summary, score *)

FirstExc(results) ==
    LET es == {k \in 1..Len(results) : results[k].exc}
    IN  IF es = {} THEN 0 ELSE SetMin(es)

\* steps 5 and 6 of review_text: the summary, then the score
Finalize(r) ==
    LET r1 == [r EXCEPT !.summary = <<GenerateSummary(r)>>]
    IN  [r1 EXCEPT !.overall_score = CalculateOverallScore(r1.issues)]

\* steps 3, 5 and 6 for a run whose consistency check is skipped
\* (enable_consistency_check is false or there are fewer than two chunks).
\* `'issues' in chunk_result` raises TypeError on an exception instance: the
\* except branch of review_text then returns the result without summary or score.
Aggregate ==
    /\ pc = "collect"
    /\ ~(enable_consistency_check /\ Len(Chunks) > 1)
    /\ LET e == FirstExc(chunk_results)
           r0 == [result EXCEPT !.chunk_results = chunk_results]
       IN  IF e # 0
           THEN /\ result' = CaughtResult(r0, CollectIssues(SubSeq(chunk_results, 1, e - 1), 1))
                /\ raised' = "TypeError"
           ELSE /\ result' = Finalize([r0 EXCEPT !.issues = CollectIssues(chunk_results, 1)])
                /\ raised' = "none"
    /\ pc' = "returned"
    /\ UNCHANGED <<cfgVars, reportVars, checker, consVars, split, dispatchVars>>

-----------------------------------------------------------------------------
(* review_text, step 4: the consistency check *)

\* step 3, then the entry of check_consistency; a disabled checker returns at
\* once and the run goes on to summary and score
BeginConsistency ==
    /\ pc = "collect"
    /\ enable_consistency_check /\ Len(Chunks) > 1
    /\ LET e == FirstExc(chunk_results)
           r0 == [result EXCEPT !.chunk_results = chunk_results]
           r1 == [r0 EXCEPT !.issues = CollectIssues(chunk_results, 1)]
       IN  IF e # 0
           THEN /\ result' = CaughtResult(r0, CollectIssues(SubSeq(chunk_results, 1, e - 1), 1))
                /\ raised' = "TypeError"
                /\ pc' = "returned"
           ELSE IF ~enable_check
           THEN /\ result' = Finalize([r1 EXCEPT !.consistency_results = SkippedConsistency])
                /\ raised' = "none"
                /\ pc' = "returned"
           ELSE /\ result' = r1
                /\ raised' = "none"
                /\ pc' = "consistency"
    /\ UNCHANGED <<cfgVars, reportVars, checker, consVars, split, dispatchVars>>

\* check_consistency with the checker enabled: the terminology check makes no
\* request; _check_facts_consistency makes one and handles any failure of it;
\* _check_logic_consistency then builds the prompt of the first adjacent pair,
\* an f-string whose literal JSON braces are read as a replacement field with an
\* invalid format specifier: ValueError, raised outside the try of
\* _check_logic_between_chunks, leaves check_consistency and reaches the
\* except branch of review_text
CheckConsistency(r) ==
    /\ pc = "consistency"
    /\ cons_calls = <<>>
    /\ cons_calls' = Append(cons_calls, ConsCall("facts", r))
    /\ result' = CaughtResult(result, result.issues)
    /\ raised' = "ValueError"
    /\ pc' = "returned"
    /\ UNCHANGED <<cfgVars, reportVars, checker, cancel, split, dispatchVars>>

-----------------------------------------------------------------------------
(* External cancellation while chunk requests are in flight.  CancelledError *)
(* is a BaseException: no `except Exception` of the program catches it.      *)

\* the task of chunk k is cancelled: its request is aborted, the semaphore is
\* released, and gather(return_exceptions=True) keeps the CancelledError
\* instance as that task's result
CancelTask(k) ==
    /\ pc = "parallel"
    /\ cancel = "none"
    /\ client = "async"
    /\ k \in 1..Len(task)
    /\ task[k].st = "inflight"
    /\ task' = [task EXCEPT ![k] = [st |-> "done", reply |-> CancelReply,
                                    result |-> ExcObject("CancelledError")]]
    /\ sem' = sem + 1
    /\ done_order' = Append(done_order, k)
    /\ cancel' = "task"
    /\ UNCHANGED <<cfgVars, reportVars, checker, cons_calls, pc, split, chunk_results, result, raised>>

\* the task running review_text is cancelled: the outstanding requests are
\* aborted and CancelledError leaves review_text
CancelReview ==
    /\ pc \in {"parallel", "sequential"}
    /\ cancel = "none"
    /\ client = "async"
    /\ InFlight > 0
    /\ task' = [k \in 1..Len(task) |->
                   IF task[k].st = "done" THEN task[k]
                   ELSE [task[k] EXCEPT !.st = "cancelled"]]
    /\ cancel' = "review"
    /\ raised' = "CancelledError"
    /\ pc' = "cancelled"
    /\ UNCHANGED <<cfgVars, reportVars, checker, cons_calls, split, sem, done_order, chunk_results, result>>

\* the caller serializes the returned result: to_dict reads the clock, stores
\* the reading in end_time and returns the report
ToDict(t) ==
    /\ pc = "returned"
    /\ t \in now..MaxClock
    /\ now' = t
    /\ LET r == [result EXCEPT !.end_time = t]
       IN  /\ result' = r
           /\ report' = <<ToDictReport(r)>>
    /\ UNCHANGED <<cfgVars, consVars, checker, pc, split, dispatchVars, raised>>

Next ==
    \/ DoSplit
    \/ SplitRaised
    \/ BeginDispatch
    \/ \E k \in 1..Len(task) : Acquire(k)
    \/ \E k \in 1..Len(task), r \in Replies : Complete(k, r)
    \/ Gather
    \/ \E k \in 1..Len(task) : SeqIssue(k)
    \/ \E k \in 1..Len(task), r \in Replies : SeqComplete(k, r)
    \/ SeqReturn
    \/ Aggregate
    \/ BeginConsistency
    \/ \E r \in FactsReplies : CheckConsistency(r)
    \/ \E k \in 1..Len(task) : CancelTask(k)
    \/ CancelReview
    \/ \E t \in 0..MaxClock : ToDict(t)

Spec == Init /\ [][Next]_vars

-----------------------------------------------------------------------------
(* The checks of the ConsistencyChecker called one by one, then             *)
(* _calculate_consistency_score and _parse_consistency_issues on what they  *)
(* returned                                                                 *)

\* _check_terminology_consistency(chunks)
TerminologyCheck ==
    /\ checker.pc = "terminology"
    /\ \E findings \in TerminologyFindingLists(checker.chunks) :
           checker' = [checker EXCEPT
               !.results = PutResult(@, "terminology", TerminologyReport(findings)),
               !.pc = "facts"]
    /\ UNCHANGED <<cfgVars, reportVars, consVars, pc, split, dispatchVars, result, raised>>

\* _check_facts_consistency(chunks): one gateway call
FactsCheck(r) ==
    /\ checker.pc = "facts"
    /\ cons_calls' = Append(cons_calls, ConsCall("facts", r))
    /\ checker' = [checker EXCEPT
           !.results = PutResult(@, "facts", FactsReport(r, client)),
           !.pc = "requirements"]
    /\ UNCHANGED <<cfgVars, reportVars, cancel, pc, split, dispatchVars, result, raised>>

\* _check_requirements_consistency(chunks), called if 'requirements' is one of
\* the check types: a gateway call if the chunks hold two or more requirements
RequirementsCheck(r) ==
    /\ checker.pc = "requirements"
    /\ LET reqs == RequirementList(checker.chunks, 1)
       IN  IF "requirements" \in check_types
           THEN /\ cons_calls' = IF Len(reqs) > 1
                                 THEN Append(cons_calls, ConsCall("requirements", r))
                                 ELSE cons_calls
                /\ checker' = [checker EXCEPT
                       !.results = PutResult(@, "requirements",
                                             RequirementsReport(reqs, r, client)),
                       !.pc = "score"]
           ELSE /\ cons_calls' = cons_calls
                /\ checker' = [checker EXCEPT !.pc = "score"]
    /\ UNCHANGED <<cfgVars, reportVars, cancel, pc, split, dispatchVars, result, raised>>

\* the report built from the results, and _parse_consistency_issues on it
ScoreAndMerge ==
    /\ checker.pc = "score"
    /\ LET rep == FullConsistencyResult(checker.results, check_types)
       IN  checker' = [checker EXCEPT
               !.report = <<rep>>,
               !.merged = ParseConsistencyIssues(rep),
               !.pc = "done"]
    /\ UNCHANGED <<cfgVars, reportVars, consVars, pc, split, dispatchVars, result, raised>>

NextChecker ==
    \/ TerminologyCheck
    \/ \E r \in FactsReplies : FactsCheck(r)
    \/ \E r \in RequirementsReplies : RequirementsCheck(r)
    \/ ScoreAndMerge

SpecChecker == InitChecker /\ [][NextChecker]_vars

-----------------------------------------------------------------------------
(* Claims about the splitter (checked under SpecSplit) *)

Returned == pc = "split" /\ split.st = "returned"

\* the window starts recorded in a chunk list advance strictly and are never negative
WindowsAdvance(chunks) ==
    \A k \in 1..Len(chunks) :
        /\ chunks[k].start_pos >= 0
        /\ k > 1 => chunks[k].start_pos > chunks[k - 1].start_pos

\* C1: split_text terminates for every text and every configuration with
\* 0 <= overlap < maxChunkSize: in the fixed-size window loop and in the
\* re-split loop of an oversized content every new window starts strictly after
\* the previous one and never at a negative offset.
C1_SplitTerminates ==
    pc = "split" =>
        /\ split.st # "diverged"
        /\ strategy = "fixed_size" => WindowsAdvance(split.chunks)
        /\ Len(text) > max_chunk_size =>
               LET sub == SplitLargeContent(text, NoneValue)
               IN  sub.st = "returned" /\ WindowsAdvance(sub.chunks)

\* length of the region two spans share
Shared(c, d) ==
    LET lo == IF c.start_pos > d.start_pos THEN c.start_pos ELSE d.start_pos
        hi == IF c.end_pos < d.end_pos THEN c.end_pos ELSE d.end_pos
    IN  IF hi > lo THEN hi - lo ELSE 0

\* C2: for every strategy and every non-empty text the spans [start, end) of the
\* returned chunks cover every character position of the text, and two adjacent
\* chunks share at most chunk_overlap characters.
C2_SpansCoverText ==
    (Returned /\ text # <<>>) =>
        /\ \A p \in 0..(Len(text) - 1) :
               \E k \in 1..Len(split.chunks) :
                   split.chunks[k].start_pos <= p /\ p < split.chunks[k].end_pos
        /\ \A k \in 1..(Len(split.chunks) - 1) :
               Shared(split.chunks[k], split.chunks[k + 1]) <= chunk_overlap

\* C3: under every strategy the chunk ids of the returned sequence are strictly
\* increasing in output order (hence pairwise distinct).
C3_ChunkIdsIncrease ==
    Returned =>
        \A k \in 1..(Len(split.chunks) - 1) :
            split.chunks[k].chunk_id < split.chunks[k + 1].chunk_id

\* C4: every returned chunk has 0 <= start < end and its content is the slice
\* text[start:end] of the original text; no chunk is empty.
C4_ChunkIsSliceOfText ==
    Returned =>
        \A k \in 1..Len(split.chunks) :
            LET c == split.chunks[k]
            IN  /\ 0 <= c.start_pos
                /\ c.start_pos < c.end_pos
                /\ c.content # <<>>
                /\ c.content = Slice(text, c.start_pos, c.end_pos)

\* C5: in fixed-size segmentation each chunk after the first starts
\* chunk_overlap characters before the end of its predecessor, and the end
\* offset of the final chunk is the length of the text.
C5_FixedSizeOffsets ==
    (Returned /\ strategy = "fixed_size" /\ text # <<>>) =>
        /\ \A k \in 1..(Len(split.chunks) - 1) :
               split.chunks[k + 1].start_pos = split.chunks[k].end_pos - chunk_overlap
        /\ Len(split.chunks) >= 1
        /\ split.chunks[Len(split.chunks)].end_pos = Len(text)

\* C6: under the fixed_size and the chapter strategy split_text on a
\* non-empty text produces at least one chunk, and no chunk it produces (in a
\* run that returns, and in the chunks built so far by a run that does not) has a
\* content longer than max_chunk_size.
C6_ChunkSizeBounded ==
    (pc = "split" /\ strategy \in {"fixed_size", "chapter"} /\ text # <<>>) =>
        /\ Len(split.chunks) >= 1
        /\ \A k \in 1..Len(split.chunks) : Len(split.chunks[k].content) <= max_chunk_size

\* an oversized chapter was re-split, its first window pulled back by the snap
C6_Witness ==
    /\ Returned
    /\ strategy = "chapter"
    /\ ChapterMatches(text) # <<>>
    /\ Len(ChapterContent(text, ChapterMatches(text), 0)) > max_chunk_size
    /\ Len(split.chunks) >= 2
    /\ split.chunks[1].end_pos - split.chunks[1].start_pos < max_chunk_size
    /\ Len(split.chunks[2].content) = max_chunk_size

\* C7: on a text in which no boundary pattern matches the chapter strategy
\* returns the chunk sequence of the fixed-size strategy (ids, contents,
\* offsets and labels alike).
C7_ChapterFallsBackToFixedSize ==
    (pc = "split" /\ strategy = "chapter" /\ ChapterMatches(text) = <<>>) =>
        split = SplitByFixedSize(text)

\* patterns are configured, none matches, and the fallback produced several chunks
C7_Witness ==
    /\ Returned
    /\ strategy = "chapter"
    /\ chapter_patterns # <<>>
    /\ ChapterMatches(text) = <<>>
    /\ Len(split.chunks) >= 2
    /\ chunk_overlap > 0

-----------------------------------------------------------------------------
(* Claims about the dispatch (checked under Spec) *)

\* C8 as stated: in every reachable state the gateway requests in flight are
\* at most as many as the configured concurrency limit max_workers.
C8_InFlightWithinLimit == InFlight > 0 => InFlight <= max_workers

\* C8 as amended: at most max_workers requests are in flight on the parallel
\* path, and at most one on the sequential path (one chunk, or parallelism
\* disabled), which does not read max_workers; so never more than
\* max(max_workers, 1).
C8_InFlightWithinEffectiveLimit ==
    /\ InFlight <= Max2(max_workers, 1)
    /\ pc = "parallel" => InFlight <= max_workers
    /\ pc = "sequential" => InFlight <= 1

\* the limit is reached on the parallel path and a chunk waits for a free slot
C8_Witness ==
    /\ pc = "parallel"
    /\ client = "async"
    /\ max_workers = 2
    /\ InFlight = max_workers
    /\ \E k \in 1..Len(task) : task[k].st = "queued"

FailedCalls == {k \in 1..Len(task) : task[k].st = "done" /\ task[k].reply.kind = "raise"}

\* dispatch was entered and every chunk's gateway call has ended
DispatchEnded == Len(task) = Len(Chunks) /\ Len(task) >= 1 /\ AllDone

\* C9: if the gateway call of exactly one chunk raises (and nothing is cancelled
\* from outside), the outcome of every other chunk is the one its own reply
\* determines, the failing chunk's outcome is a failure record with that chunk's
\* id, an error description and an empty finding list, and review_text returns
\* a ReviewResult with summary and score computed.
C9_FailureIsolated ==
    (pc = "returned" /\ DispatchEnded /\ Cardinality(FailedCalls) = 1
        /\ cancel = "none") =>
        /\ raised = "none"
        /\ result.summary # <<>>
        /\ result.overall_score = CalculateOverallScore(result.issues)
        /\ Len(result.chunk_results) = Len(Chunks)
        /\ \A k \in 1..Len(Chunks) :
               LET o == result.chunk_results[k]
               IN  /\ ~o.exc
                   /\ k \in FailedCalls =>
                          /\ o.chunk_id = Chunks[k].chunk_id
                          /\ {"chunk_id", "error", "issues"} \subseteq o.keys
                          /\ o.error # "none"
                          /\ o.issues = <<>>
                   /\ k \notin FailedCalls =>
                          o = ProcessChunk(Chunks[k], task[k].reply, client)

\* C10: whatever the completion order (no task being cancelled from outside),
\* dispatch returns one outcome per chunk, the k-th being the outcome of the
\* k-th chunk's own call and carrying that chunk's id; a task writes no outcome
\* but its own.
C10_OutcomesInChunkOrder ==
    cancel = "none" =>
        /\ \A k \in 1..Len(task) :
               IF task[k].st = "done"
               THEN ~task[k].result.exc /\ task[k].result.chunk_id = Chunks[k].chunk_id
               ELSE task[k].result = NoOutcome
        /\ (pc \in {"collect", "consistency", "returned"} /\ split.st = "returned"
                /\ Len(task) = Len(Chunks)) =>
               /\ Len(chunk_results) = Len(Chunks)
               /\ \A k \in 1..Len(Chunks) :
                      /\ chunk_results[k] = task[k].result
                      /\ chunk_results[k].chunk_id = Chunks[k].chunk_id

\* the calls finished in the reverse of chunk order and gather has returned
C10_Witness ==
    /\ pc = "collect"
    /\ enable_parallel
    /\ client = "async"
    /\ Len(task) = 3
    /\ done_order = <<3, 2, 1>>
    /\ cancel = "none"
    /\ Chunks[1].chunk_id # Chunks[3].chunk_id
    /\ \A k \in 1..3 : task[k].reply.kind # "raise"

\* C11: when max_workers is at most 1 or there is exactly one chunk, dispatch
\* runs strictly sequentially: at most one request is in flight, requests go
\* out in chunk order each after the previous one has returned, dispatch is
\* never left waiting with no request in flight, and the outcome list it
\* returns is the one the parallel path returns (each chunk's process_chunk
\* outcome, in chunk order).
C11_SequentialDispatch ==
    (/\ split.st = "returned"
     /\ Len(Chunks) >= 1
     /\ max_workers <= 1 \/ Len(Chunks) = 1
     /\ cancel = "none"
     /\ pc \notin {"start", "split"}) =>
        /\ InFlight <= 1
        /\ \A k \in 1..Len(task) :
               task[k].st # "queued" => \A j \in 1..(k - 1) : task[j].st = "done"
        /\ ~(pc = "parallel" /\ InFlight = 0 /\ ~AllDone /\ sem <= 0)
        /\ pc \in {"collect", "consistency", "returned"} =>
               /\ Len(task) = Len(Chunks)
               /\ Len(chunk_results) = Len(Chunks)
               /\ \A k \in 1..Len(Chunks) :
                      chunk_results[k] = ProcessChunk(Chunks[k], task[k].reply, client)

\* C12: no gateway call of the consistency checker is issued before every
\* per-chunk dispatch task has completed and its outcome is in the list
\* dispatch returned.
C12_ConsistencyAfterDispatch ==
    (pc = "consistency" \/ cons_calls # <<>>) =>
        /\ Len(task) = Len(Chunks)
        /\ AllDone
        /\ InFlight = 0
        /\ Len(chunk_results) = Len(Chunks)
        /\ \A k \in 1..Len(Chunks) :
               /\ chunk_results[k] = task[k].result
               /\ chunk_results[k].chunk_id = Chunks[k].chunk_id
        /\ result.chunk_results = chunk_results

\* the fact-check request went out after three chunk calls that had been in
\* flight together and finished out of chunk order
C12_Witness ==
    /\ cons_calls # <<>>
    /\ cons_calls[1].check = "facts"
    /\ enable_parallel
    /\ client = "async"
    /\ Len(task) = 3
    /\ done_order = <<2, 3, 1>>

\* C13: once an external cancellation has arrived while chunk requests were in
\* flight, review_text does not return a ReviewResult, and in the cancelled
\* state no request is left in flight.
C13_CancelIsTerminal ==
    cancel # "none" =>
        /\ pc # "returned"
        /\ pc = "cancelled" => InFlight = 0

\* the findings review_text had collected when the exception it caught was raised
CollectedBeforeFailure ==
    IF raised = "TypeError"
    THEN CollectIssues(SubSeq(chunk_results, 1, FirstExc(chunk_results) - 1), 1)
    ELSE IF raised = "ValueError" /\ cons_calls # <<>>
    THEN CollectIssues(chunk_results, 1)
    ELSE <<>>

SyntheticFindings ==
    {k \in 1..Len(result.issues) : result.issues[k].review_point = "system_error"}

\* C14: an exception raised during segmentation, dispatch, consistency checking
\* or aggregation does not leave review_text (only a cancellation does): the
\* run returns a ReviewResult whose finding list is the findings collected
\* before the failure followed by exactly one synthetic critical finding with
\* chunk_id -1; a run without failure has no synthetic finding.
C14_FailureBecomesFinding ==
    /\ pc = "cancelled" => raised = "CancelledError" /\ cancel = "review"
    /\ raised \notin {"none", "CancelledError"} => pc = "returned"
    /\ pc = "returned" =>
           IF raised = "none" THEN SyntheticFindings = {}
           ELSE /\ Cardinality(SyntheticFindings) = 1
                /\ result.issues = Append(CollectedBeforeFailure, SystemErrorIssue)
                /\ SystemErrorIssue.chunk_id = -1
                /\ SystemErrorIssue.severity = "critical"

\* the consistency check raised after three chunks had reported findings
C14_Witness ==
    /\ pc = "returned"
    /\ raised = "ValueError"
    /\ cons_calls # <<>>
    /\ Len(task) = 3
    /\ Len(result.issues) = 4

\* C15: in every ReviewResult review_text returns, overall_score is
\* max(0, 100 - sum of weight(severity) * confidence over the final finding
\* list), with weights critical 20, high 10, medium 5, low 1.
C15_ScoreFromFindings ==
    pc = "returned" =>
        result.overall_score = Max2(0, 100 * 10 - TotalPenalty(result.issues))

\* C16: a run whose strategy is none of chapter, paragraph, fixed_size, semantic
\* does not end with a returned ReviewResult, and makes no gateway call.
C16_UnknownStrategyRaises ==
    strategy \notin Strategies =>
        /\ pc # "returned"
        /\ task = <<>>
        /\ cons_calls = <<>>

\* C17: overall_score and consistency_score lie in [0, 100] in every result,
\* whatever severities and confidences the replies carry.
C17_ScoresInRange ==
    /\ result.overall_score \in 0..(100 * 10)
    /\ result.consistency_results.keys # {} =>
           result.consistency_results.consistency_score \in 0..(100 * 10)

\* confidences (in tenths) carried by the findings of the model's replies
Confidences == {-5, 5, 10}

\* C18: for the finding list L of a returned result and any further critical
\* finding f, the overall score of L with f is not above the score of L; and
\* the consistency score of a report with one more critical finding is not
\* above the score without it.
C18_MonotonicPenalty ==
    (pc = "returned" /\ raised = "none") =>
        /\ \A c \in Confidences :
               CalculateOverallScore(Append(result.issues, Issue(0, "critical", c)))
                   <= result.overall_score
        /\ \A c \in Confidences :
               CalculateConsistencyScore(
                   [t \in {"facts"} |->
                       SubReport(<<Finding("facts", "critical", c)>>, <<>>, <<>>)],
                   check_types)
                   <= CalculateConsistencyScore(
                          [t \in {"facts"} |-> SubReport(<<>>, <<>>, <<>>)], check_types)

\* C19: a chunk call that ended with reply text yields a non-failure outcome:
\* the structured result if the text is JSON, else the heuristic result whose
\* score is the score phrase clamped to [0, 100], or 75 without a phrase; text
\* that is JSON but not an object yields no failure outcome either.
C19_ReplyTextNeverFails ==
    /\ \A p \in Phrases : ExtractScoreFromText(p) \in 0..(100 * 10)
    /\ \A k \in 1..Len(task) :
           (task[k].st = "done" /\ task[k].reply.kind \in {"json", "text", "json_other"}) =>
               /\ "error" \notin task[k].result.keys
               /\ task[k].reply.kind = "json" =>
                      /\ task[k].result.issues = task[k].reply.issues
                      /\ task[k].result.overall_score = task[k].reply.score
               /\ task[k].reply.kind = "text" =>
                      task[k].result.overall_score =
                          (IF task[k].reply.score = NoPhrase THEN 750
                           ELSE ExtractScoreFromText(task[k].reply.score))

\* C20: a check category outside the configured check types is not run: the
\* checker issues no gateway call for it, and the report holds no finding of it.
C20_UnconfiguredCheckNotRun ==
    /\ \A i \in 1..Len(cons_calls) : cons_calls[i].check \in check_types
    /\ result.consistency_results.keys # {} =>
           \A i \in 1..Len(result.consistency_results.inconsistencies) :
               result.consistency_results.inconsistencies[i].type \in check_types

-----------------------------------------------------------------------------
(* Claims about the consistency stage and the report (checked under Spec) *)

\* C21: if a gateway call made by a consistency check raises, the review run
\* completes normally: no exception reaches review_text, the chunk outcomes
\* and the findings collected from them are unchanged, and summary and overall
\* score are computed.
C21_CheckFailureIsolated ==
    (/\ pc = "returned"
     /\ \E i \in 1..Len(cons_calls) : cons_calls[i].reply.kind = "raise") =>
        /\ raised = "none"
        /\ result.chunk_results = chunk_results
        /\ SubSeq(result.issues, 1, Len(CollectIssues(chunk_results, 1)))
               = CollectIssues(chunk_results, 1)
        /\ \A k \in 1..Len(result.issues) : result.issues[k].review_point # "system_error"
        /\ result.summary # <<>>
        /\ result.overall_score = CalculateOverallScore(result.issues)

\* C23: in a ReviewResult that review_text returns with a summary, the overall
\* score the summary states is the result's overall_score, and the total and
\* per-severity counts it states are the counts of the final finding list.
C23_SummaryStatesFinalNumbers ==
    (pc = "returned" /\ raised = "none") =>
        /\ result.summary # <<>>
        /\ result.summary[1].overall_score = result.overall_score
        /\ result.summary[1].total = Len(result.issues)
        /\ \A s \in {"critical", "high", "medium", "low"} :
               result.summary[1][s] = CountSeverity(result.issues, s)

-----------------------------------------------------------------------------
(* Claims about the window snap and the paragraph strategy (checked under  *)
(* SpecSplit)                                                              *)

\* the window ends the stated priority allows for the window [start, end) of t:
\* just after the last sentence terminator past the window's first character;
\* else at (before or after) the last blank-paragraph separator; else at (before
\* or after) the last space; else the unchanged end
PriorityEnds(t, start, end) ==
    LET sentence_end == SetMax({RFind(t, <<c>>, start, end) : c \in Terminators})
        para_pos == RFind(t, <<"\n", "\n">>, start, end)
        space_pos == RFind(t, <<" ">>, start, end)
    IN  IF sentence_end > start THEN {sentence_end + 1}
        ELSE IF para_pos > start THEN {para_pos, para_pos + 2}
        ELSE IF space_pos > start THEN {space_pos, space_pos + 1}
        ELSE {end}

\* the oversized chapter contents that split_text re-splits
OversizedChapters ==
    LET ms == ChapterMatches(text)
    IN  {ChapterContent(text, ms, i) : i \in 0..(Len(ms) - 1)}
            \cap {c \in Texts : Len(c) > max_chunk_size}

\* C29: every window of the fixed-size strategy and of the re-split of an
\* oversized chapter that would end before the end of its text ends at a
\* boundary of the highest priority present in the window: sentence terminator,
\* else blank-paragraph boundary, else space, else unchanged.
C29_SnapByPriority ==
    /\ (Returned /\ strategy = "fixed_size") =>
           \A k \in 1..Len(split.chunks) :
               LET c == split.chunks[k]
               IN  c.start_pos + max_chunk_size < Len(text) =>
                       c.end_pos \in PriorityEnds(text, c.start_pos,
                                                  c.start_pos + max_chunk_size)
    /\ (Returned /\ strategy = "chapter") =>
           \A content \in OversizedChapters :
               LET sub == SplitLargeContent(content, NoneValue).chunks
               IN  \A k \in 1..Len(sub) :
                       sub[k].start_pos + max_chunk_size < Len(content) =>
                           sub[k].end_pos \in PriorityEnds(content, sub[k].start_pos,
                                                sub[k].start_pos + max_chunk_size)

\* the stripped non-empty paragraphs of the text, in source order
RECURSIVE NonEmptyParagraphs(_)
NonEmptyParagraphs(paragraphs) ==
    IF paragraphs = <<>> THEN <<>>
    ELSE (IF Strip(Head(paragraphs)) = <<>> THEN <<>> ELSE <<Strip(Head(paragraphs))>>)
         \o NonEmptyParagraphs(Tail(paragraphs))

\* "\n\n".join(paragraphs)
RECURSIVE JoinParagraphs(_)
JoinParagraphs(paragraphs) ==
    IF paragraphs = <<>> THEN <<>>
    ELSE IF Len(paragraphs) = 1 THEN Head(paragraphs)
    ELSE Head(paragraphs) \o <<"\n", "\n">> \o JoinParagraphs(Tail(paragraphs))

\* C30: in the paragraph strategy the chunks, joined in order, are the
\* non-empty paragraphs in source order, and a chunk whose content is longer
\* than max_chunk_size is a single paragraph: a chunk packed from two or more
\* paragraphs, separators included, does not exceed max_chunk_size.
C30_ParagraphPacking ==
    (Returned /\ strategy = "paragraph") =>
        LET paras == NonEmptyParagraphs(ReSplit(text, 0))
        IN  /\ JoinParagraphs([k \in 1..Len(split.chunks) |-> split.chunks[k].content])
                   = JoinParagraphs(paras)
            /\ \A k \in 1..Len(split.chunks) :
                   \/ Len(split.chunks[k].content) <= max_chunk_size
                   \/ \E j \in 1..Len(paras) : split.chunks[k].content = paras[j]

\* C24: when review_text has returned, the end timestamp of the result is set,
\* and no later step (a to_dict call included) changes the result's score or
\* its end timestamp.
C24_FinalizedOnce ==
    /\ [](pc = "returned" => result.end_time # NoneTime)
    /\ [][pc = "returned" =>
              /\ result'.overall_score = result.overall_score
              /\ result'.end_time = result.end_time]_vars

\* the findings of the chunk outcomes from the k-th on, each tagged with the
\* chunk_id of its chunk, in chunk order
RECURSIVE ChunkFindingsFrom(_)
ChunkFindingsFrom(k) ==
    IF k > Len(chunk_results) THEN <<>>
    ELSE [j \in 1..Len(chunk_results[k].issues) |->
             Issue(Chunks[k].chunk_id, chunk_results[k].issues[j].severity,
                   chunk_results[k].issues[j].confidence)]
         \o ChunkFindingsFrom(k + 1)

\* the findings the consistency checks of the run reported, tagged as global
RECURSIVE CheckFindingsFrom(_)
CheckFindingsFrom(i) ==
    IF i > Len(cons_calls) THEN <<>>
    ELSE LET incs == FactsReport(cons_calls[i].reply, client).inconsistencies
         IN  [j \in 1..Len(incs) |->
                 ReviewIssue(-1, "consistency", incs[j].severity, incs[j].confidence)]
             \o CheckFindingsFrom(i + 1)

\* C25: when a review whose chunks were all processed has returned, the merged
\* finding list is the findings of the chunk outcomes, each tagged with its
\* chunk's id, in chunk order, followed by the findings of the consistency
\* checks tagged with chunk_id -1, and nothing else.
C25_MergedFindings ==
    (/\ pc = "returned"
     /\ cancel = "none"
     /\ split.st = "returned"
     /\ Len(chunk_results) = Len(Chunks)
     /\ FirstExc(chunk_results) = 0) =>
        result.issues = ChunkFindingsFrom(1) \o CheckFindingsFrom(1)

\* C28: in every report to_dict returns, each finding of the flat list is in
\* exactly one of the four severity groups, and the sizes of the groups sum to
\* total_issues.
C28_SeverityGroupsPartition ==
    report # <<>> =>
        LET groups == report[1].issues_by_severity
        IN  /\ Len(groups["critical"]) + Len(groups["high"]) + Len(groups["medium"])
                   + Len(groups["low"]) = report[1].total_issues
            /\ \A k \in 1..Len(report[1].issues) :
                   Cardinality({s \in Severities :
                       \E j \in 1..Len(groups[s]) : groups[s][j] = report[1].issues[k]}) = 1

-----------------------------------------------------------------------------
(* Claims about the checks of the consistency checker (checked under       *)
(* SpecChecker)                                                            *)

\* C22: the terminology check emits exactly one finding for every normalized
\* key recorded with two or more distinct surface forms and none for any other
\* key; the finding has severity medium, names every variant and recommends a
\* longest one; and two chunks whose texts are the surface forms "AI<system>"
\* and "Ai <system>" yield exactly one finding that names both.
C22_OneFindingPerVariantKey ==
    checker.pc \in {"facts", "requirements", "score", "done"} =>
        LET fs == checker.results["terminology"].inconsistencies
            terms == AllTerms(checker.chunks)
        IN  /\ \A k \in 1..Len(fs) : \E t \in terms : fs[k].key = NormalizeTerm(t)
            /\ \A t \in terms :
                   LET forms == {u \in terms : NormalizeTerm(u) = NormalizeTerm(t)}
                       found == {k \in 1..Len(fs) : fs[k].key = NormalizeTerm(t)}
                   IN  /\ Cardinality(found) = (IF Cardinality(forms) >= 2 THEN 1 ELSE 0)
                       /\ \A k \in found :
                              /\ fs[k].severity = "medium"
                              /\ fs[k].variants = forms
                              /\ fs[k].suggestion \in forms
                              /\ \A u \in forms : Len(u) <= Len(fs[k].suggestion)
            /\ checker.chunks = <<AISystem, AiSpaceSystem>> =>
                   /\ Len(fs) = 1
                   /\ fs[1].variants = {AISystem, AiSpaceSystem}

\* the largest penalty the stated weights allow for one finding, in tenths
StatedWeight(severity) ==
    CASE severity = "critical" -> 15
      [] severity = "high"     -> 5
      [] severity = "medium"   -> 2
      [] OTHER                 -> 1

RECURSIVE StatedPenalty(_)
StatedPenalty(findings) ==
    IF findings = <<>> THEN 0
    ELSE StatedWeight(Head(findings).severity) * Head(findings).confidence
         + StatedPenalty(Tail(findings))

\* the findings of a report, each once: the inconsistencies, and the critical
\* issues that are not among them
DistinctFindings(rep) ==
    rep.inconsistencies
        \o SelectSeq(rep.critical_issues,
                     LAMBDA f : \A k \in 1..Len(rep.inconsistencies) :
                                    rep.inconsistencies[k] # f)

\* C26: the consistency score charges every finding of the report one penalty
\* of at most 15, 5, 2 or 1 times its confidence (critical, high, medium, low),
\* no finding twice: the score is not below max(0, 100 - the sum of these
\* penalties over the distinct findings).
C26_OnePenaltyPerFinding ==
    checker.pc = "done" =>
        checker.report[1].consistency_score
            >= Max2(0, 100 * 10 - StatedPenalty(DistinctFindings(checker.report[1])))

\* C27: every issue the consistency score charges is in the report's finding
\* list and, tagged as global, in the findings merged into the ReviewResult.
C27_ChargedIssuesAreFindings ==
    checker.pc = "done" =>
        LET rep == checker.report[1]
            charged == MergeField(checker.results, check_types, "critical_issues", 1)
                           \o MergeField(checker.results, check_types, "inconsistencies", 1)
        IN  \A k \in 1..Len(charged) :
                charged[k].confidence # 0 =>
                    /\ \E j \in 1..Len(rep.inconsistencies) :
                           rep.inconsistencies[j] = charged[k]
                    /\ \E j \in 1..Len(checker.merged) :
                           checker.merged[j] = ReviewIssue(-1, "consistency",
                                                   charged[k].severity, charged[k].confidence)

=============================================================================
